---- MODULE Spec2Model ----
(***************************************************************************)
(* State-machine model of the process-supervision core of                  *)
(* influx6/reactors, package builders (src/builders/builders.go):          *)
(*   - GoBuilderWith                   (build stage)                       *)
(*   - GoInstaller(With), GoRunner, GoBuilder, GoArgsBuilder(With),        *)
(*     ByteRenderer, the RenderFile converters (single-handler stages)     *)
(*   - CommandLauncher, BinaryLauncher, GoFileLauncher (supervisors)       *)
(*   - BinaryBuildLauncher             (coordinator -> builder -> runner)  *)
(*                                                                         *)
(* One system is modelled per behaviour; Init picks which one (kind).      *)
(* Threads of control:                                                     *)
(*   - the caller of Send: signals are delivered to a stage one at a time  *)
(*     (design 4.1: delivery is queued); a handler hands the signal to    *)
(*     the next stage by the Reply that is its last statement, so the      *)
(*     handlers of a chain run one after the other (hpc is the position);  *)
(*   - the background run-loop created by RunCMD / RunBin / RunGo (lpc);   *)
(*   - the supervised child process (proc);                                *)
(*   - Close, from any caller, and the `go root.Close()` the launcher      *)
(*     hands to RunBin / RunGo (pendingClose).                             *)
(*                                                                         *)
(* RunCMD, RunBin, RunGo, Gobuild and the flux reactor primitives are not  *)
(* among the source files; they follow the design document (sections       *)
(* 4.1-4.3, 5, 6): the mailbox is an unbuffered channel, the run-loop      *)
(* kills the current run before it honours the next value, a closed stage  *)
(* accepts no input and emits no output, and a child that ends abnormally  *)
(* by itself (not one the run-loop killed) runs the launcher's second      *)
(* callback.  A child process always starts; a failed start is a start     *)
(* followed at once by an abnormal exit.  Next to a composite stands a      *)
(* second composite built from the same configuration, modelled by its     *)
(* supervisor state alone (peer).                                          *)
(***************************************************************************)
EXTENDS Integers, Sequences, FiniteSets, TLC

\* Number of triggers the environment sends in one behaviour.
MaxTriggers == 3

\* Number of mailboxes / run-loops one launcher closure could ever create.
MaxLoops == 2

Kinds == {"composite", "builder", "binary", "command", "gofile", "stage"}

LauncherKinds == {"binary", "command", "gofile"}

\* Payload of a signal: the two booleans, or any value that is not a bool.
Payloads == {"true", "false", "nonbool"}

\* The stage constructors whose handler is a single function of the payload.
\* (GoBuilderWith is the kind "builder".)
StageVariants ==
    {"GoInstaller", "GoInstallerWith", "GoRunner", "GoBuilder", "GoArgsBuilder",
     "GoArgsBuilderWith", "ByteRenderer", "FileRead2RenderFile",
     "FileWrite2RenderFile", "RenderFile2FileWrite"}

\* Dynamic type of a payload sent to one of the StageVariants.
PayloadTypes ==
    {"string", "BuildConfig", "[]string", "*RenderFile", "*fs.FileRead",
     "*fs.FileWrite", "bool"}

Stages == {"stack", "builder", "runner", "stage"}

Loops == 1..MaxLoops

Triggers == 1..MaxTriggers

Configs == [Name : {"", "demo"}, Path : {"", "/tmp/app"}]

VARIABLES
    kind,          \* which constructor the program calls
    cfg,           \* the BuildConfig / BinaryBuildConfig passed to it
    variant,       \* kind "stage": which stage constructor ("none" otherwise)
    peer,          \* kind "composite": the supervisor state of a second composite
                   \* constructed from the same configuration
    phase,         \* "new" | "panicked" | "ready"
    stages,        \* stages (reactors) created so far
    closed,        \* stages whose Close has run (CloseNotify is readable)
    channel,       \* the launcher closure's `channel`: 0 is nil, else a loop id
    mbox,          \* per loop: the mailbox "none" | "open" | "closed"
    lpc,           \* per loop: position of the run-loop
    lval,          \* per loop: value last received from the mailbox
    ltrig,         \* per loop: trigger whose hand-off delivered lval
    proc,          \* per loop: child process "none" | "alive" | "dead" (ended
                   \* by itself, normally) | "crashed" (ended by itself, abnormally)
    hpc,           \* position of the thread delivering the current trigger
    hdata,         \* payload the runner's handler was invoked with
    hret,          \* where the runner's handler returns to: "coord" | "top"
    cur,           \* trigger being delivered (0: none yet)
    ntrig,         \* triggers sent so far
    payload,       \* per trigger: payload it was sent with
    pendingClose,  \* a `go root.Close()` has been started and has not run yet
    hpcAtClose,    \* "open", or the value of hpc when the runner's stage closed
    events,        \* per trigger: what happened for it, in order
    emitted,       \* per trigger: signals the build stage emitted
    startReq,      \* triggers whose start request (true) the run-loop received
    acks           \* Reply(true) signals emitted by the launcher's done callback

vars == <<kind, cfg, variant, peer, phase, stages, closed, channel, mbox, lpc, lval, ltrig, proc,
          hpc, hdata, hret, cur, ntrig, payload, pendingClose, hpcAtClose, events,
          emitted, startReq, acks>>

loopVars == <<mbox, lpc, lval, ltrig, proc>>

histVars == <<events, emitted, startReq, hpcAtClose>>

----------------------------------------------------------------------------
(* Pure parts of the handlers and constructors *)

\* validateBuildConfig: TRUE when it returns, FALSE when it panics.
validateBuildConfig(b) == b.Name # "" /\ b.Path # ""

validateBinaryBuildConfigNameOnly(b) == b.Name # ""

\* validateBinaryBuildConfig: TRUE when it returns, FALSE when it panics.
validateBinaryBuildConfig(b) == b.Name # "" /\ b.Path # ""

\* BinaryBuildLauncher up to its return: validate, create the stack, create the
\* builder (which validates again), create the runner, React, Bind, Bind.
BinaryBuildLauncherResult(c) ==
    IF ~validateBinaryBuildConfig(c)
    THEN [panic |-> TRUE, stages |-> {}]
    ELSE IF ~validateBuildConfig([Path |-> c.Path, Name |-> c.Name])
         THEN [panic |-> TRUE, stages |-> {"stack"}]
         ELSE [panic |-> FALSE, stages |-> {"stack", "builder", "runner"}]

\* GoBuilderWith up to its return: validate, then create the stage.
GoBuilderWithResult(c) ==
    IF ~validateBuildConfig(c)
    THEN [panic |-> TRUE, stages |-> {}]
    ELSE [panic |-> FALSE, stages |-> {"builder"}]

\* CommandLauncher / BinaryLauncher / GoFileLauncher: no validation, one stage.
LauncherResult == [panic |-> FALSE, stages |-> {"runner"}]

\* The StageVariants: flux.Reactive / flux.FlatSimple of the handler, one stage.
StageResult == [panic |-> FALSE, stages |-> {"stage"}]

GoBuilderWithRepliesNoAck(ok) == IF ok THEN <<>> ELSE <<"err">>

GoBuilderWithRepliesNoReturn(ok) == IF ok THEN <<"ack">> ELSE <<"err", "ack">>

\* The signals GoBuilderWith's handler emits for one trigger, given Gobuild's
\* outcome: ReplyError(err) and return, or Reply(true).
GoBuilderWithReplies(ok) == IF ok THEN <<"ack">> ELSE <<"err">>

\* The type the handler's assertion `data.(T)` names; "any" when the handler
\* ignores its payload (`_ interface{}`).
Expects(v) ==
    CASE v \in {"GoInstaller", "GoRunner"} -> "string"
      [] v = "GoBuilder" -> "BuildConfig"
      [] v = "GoArgsBuilder" -> "[]string"
      [] v \in {"ByteRenderer", "RenderFile2FileWrite"} -> "*RenderFile"
      [] v = "FileRead2RenderFile" -> "*fs.FileRead"
      [] v = "FileWrite2RenderFile" -> "*fs.FileWrite"
      [] OTHER -> "any"

TypeAssertsAlways(v, d) == TRUE

\* `if x, ok := data.(T); ok`: whether the handler's body runs for payload d.
TypeAsserts(v, d) == Expects(v) = "any" \/ d = Expects(v)

\* Whether the handler, once its body runs, calls an external tool
\* (GoDeps, GoRun, Gobuild, GobuildArgs).
CallsTool(v) ==
    v \in {"GoInstaller", "GoInstallerWith", "GoRunner", "GoBuilder", "GoArgsBuilder",
           "GoArgsBuilderWith"}

StageRepliesNoReturn(v, d, ok) ==
    IF ~TypeAsserts(v, d) THEN <<>>
    ELSE IF CallsTool(v) /\ v # "GoRunner"
         THEN (IF ok THEN <<"ack">> ELSE <<"err", "ack">>)
         ELSE <<"out">>

\* The signals the handler of stage v emits for a payload of type d when its
\* tool, if it calls one, succeeds (ok) or fails:
\*   GoInstaller, GoInstallerWith, GoArgsBuilder, GoArgsBuilderWith:
\*       ReplyError(err) and return, or Reply(true);
\*   GoBuilder: ReplyError(err), and nothing else;
\*   GoRunner: Reply(GoRun(cmd)); the renderer and the converters: Reply(value).
StageReplies(v, d, ok) ==
    IF ~TypeAsserts(v, d) THEN <<>>
    ELSE IF v \in {"GoInstaller", "GoInstallerWith", "GoArgsBuilder", "GoArgsBuilderWith"}
         THEN (IF ok THEN <<"ack">> ELSE <<"err">>)
         ELSE IF v = "GoBuilder"
              THEN (IF ok THEN <<>> ELSE <<"err">>)
              ELSE <<"out">>

\* The payloads sent to stage v: of the asserted type, a bool, and one more
\* type; two types for a handler that ignores its payload.
StageInputs(v) ==
    IF Expects(v) = "any" THEN {"bool", "string"}
    ELSE {Expects(v), "bool", IF Expects(v) = "string" THEN "[]string" ELSE "string"}

\* The payloads an external Send draws from.  BinaryBuildLauncher's
\* coordinator forwards its payload untouched and neither it nor GoBuilderWith
\* (`_ interface{}`) looks at it: one opaque value.
PayloadsOf(k, v) ==
    IF k = "stage" THEN StageInputs(v)
    ELSE IF k \in {"composite", "builder"} THEN {"nonbool"}
    ELSE Payloads

CoordKillPayloadTrue == "true"

\* What the coordinator sends to the runner before forwarding the trigger.
CoordKillPayload == "false"

NeedsMailboxAlways(ch) == TRUE

\* `if channel == nil`: the mailbox and run-loop are created on this trigger.
NeedsMailbox(ch) == ch = 0

LauncherSendsAlways(k, d) == TRUE

\* Whether the timer case of the handler's select sends into the mailbox:
\* CommandLauncher and GoFileLauncher always do, BinaryLauncher only for a bool.
LauncherSends(k, d) == IF k \in {"command", "gofile"} THEN TRUE ELSE d \in {"true", "false"}

LauncherSendValueAlwaysTrue(k, d) == "true"

\* The value the timer case sends: `true`, or BinaryLauncher's own payload.
LauncherSendValue(k, d) == IF k \in {"command", "gofile"} THEN "true" ELSE d

SecondCallbackNever(k) == FALSE

\* Whether the launcher hands its run function a second callback that closes
\* the stage: BinaryLauncher and GoFileLauncher pass
\* `func() { go root.Close() }`, CommandLauncher passes the done callback only.
SecondCallbackCloses(k) == k # "command"

MailboxScopePackage == "package"

\* Where `var channel chan bool` is declared: inside the constructor, so each
\* call of the constructor has a variable (and then a mailbox) of its own.
MailboxScope == "closure"

AcceptsAlways(st) == TRUE

\* A stage runs its handler for a signal only while it is not closed.
Accepts(st) == st \notin closed

\* Where the runner's handler returns to.
Ret(r) == IF r = "coord" THEN "coord_reply" ELSE "idle"

\* The stage an external Send enters.
EntryStage(k) ==
    IF k = "composite" THEN "stack"
    ELSE IF k = "builder" THEN "builder"
    ELSE IF k = "stage" THEN "stage" ELSE "runner"

NumLoops == Cardinality({l \in Loops : mbox[l] # "none"})

LiveProcs == {l \in Loops : proc[l] = "alive"}

Log(t, e) == [events EXCEPT ![t] = Append(@, e)]

\* The second composite before it is constructed, and once constructed.
PeerAbsent == [state |-> "absent", mbox |-> "none", proc |-> "none"]

PeerIdle == [state |-> "Idle", mbox |-> "none", proc |-> "none"]

----------------------------------------------------------------------------
Init ==
    /\ kind \in Kinds
    /\ cfg \in Configs
    /\ (kind \in LauncherKinds \cup {"stage"} => cfg = [Name |-> "demo", Path |-> "/tmp/app"])
    /\ variant \in (IF kind = "stage" THEN StageVariants ELSE {"none"})
    /\ peer = PeerAbsent
    /\ phase = "new"
    /\ stages = {}
    /\ closed = {}
    /\ channel = 0
    /\ mbox = [l \in Loops |-> "none"]
    /\ lpc = [l \in Loops |-> "none"]
    /\ lval = [l \in Loops |-> "none"]
    /\ ltrig = [l \in Loops |-> 0]
    /\ proc = [l \in Loops |-> "none"]
    /\ hpc = "idle"
    /\ hdata = "none"
    /\ hret = "top"
    /\ cur = 0
    /\ ntrig = 0
    /\ payload = [t \in Triggers |-> "none"]
    /\ pendingClose = FALSE
    /\ hpcAtClose = "open"
    /\ events = [t \in Triggers |-> <<>>]
    /\ emitted = [t \in Triggers |-> <<>>]
    /\ startReq = {}
    /\ acks = 0

\* The program calls the constructor.
Construct ==
    /\ phase = "new"
    /\ LET r == IF kind = "composite" THEN BinaryBuildLauncherResult(cfg)
                ELSE IF kind = "builder" THEN GoBuilderWithResult(cfg)
                ELSE IF kind = "stage" THEN StageResult
                ELSE LauncherResult
       IN /\ phase' = IF r.panic THEN "panicked" ELSE "ready"
          /\ stages' = r.stages
          /\ peer' = IF kind = "composite" /\ ~r.panic THEN PeerIdle ELSE peer
    /\ UNCHANGED <<kind, cfg, variant, closed, channel, loopVars, hpc, hdata, hret, cur, ntrig,
                   payload, pendingClose, histVars, acks>>

\* An external Send of payload d; a closed stage accepts no input.
Trigger(d) ==
    /\ phase = "ready"
    /\ hpc = "idle"
    /\ ntrig < MaxTriggers
    /\ Accepts(EntryStage(kind))
    /\ ntrig' = ntrig + 1
    /\ cur' = ntrig + 1
    /\ payload' = [payload EXCEPT ![ntrig + 1] = d]
    /\ IF kind = "composite"
       THEN /\ hpc' = "coord"
            /\ UNCHANGED <<hdata, hret, events>>
       ELSE IF kind = "builder"
       THEN /\ hpc' = "build"
            /\ events' = Log(ntrig + 1, "buildStarted")
            /\ UNCHANGED <<hdata, hret>>
       ELSE IF kind = "stage"
       THEN /\ hpc' = "stage"
            /\ UNCHANGED <<hdata, hret, events>>
       ELSE /\ hpc' = "r_init"
            /\ hdata' = d
            /\ hret' = "top"
            /\ UNCHANGED events
    /\ UNCHANGED <<kind, cfg, variant, peer, phase, stages, closed, channel, loopVars, pendingClose,
                   hpcAtClose, emitted, startReq, acks>>

\* Coordinator: runner.Send(false).
CoordKill ==
    /\ hpc = "coord"
    /\ IF ~Accepts("runner")
       THEN /\ hpc' = "coord_reply"
            /\ UNCHANGED <<hdata, hret>>
       ELSE /\ hpc' = "r_init"
            /\ hdata' = CoordKillPayload
            /\ hret' = "coord"
    /\ UNCHANGED <<kind, cfg, variant, peer, phase, stages, closed, channel, loopVars, cur, ntrig,
                   payload, pendingClose, histVars, acks>>

\* Coordinator: root.Reply(data), delivered to the builder.
CoordReply ==
    /\ hpc = "coord_reply"
    /\ IF "stack" \in closed \/ ~Accepts("builder")
       THEN /\ hpc' = "idle"
            /\ UNCHANGED events
       ELSE /\ hpc' = "build"
            /\ events' = Log(cur, "buildStarted")
    /\ UNCHANGED <<kind, cfg, variant, peer, phase, stages, closed, channel, loopVars, hdata, hret, cur,
                   ntrig, payload, pendingClose, hpcAtClose, emitted, startReq, acks>>

\* Builder: Gobuild returns (ok or an error) and the handler replies.
Build(ok) ==
    /\ hpc = "build"
    /\ LET out == GoBuilderWithReplies(ok)
           sent == IF "builder" \in closed THEN <<>> ELSE out
           ack == \E i \in 1..Len(sent) : sent[i] = "ack"
       IN /\ emitted' = [emitted EXCEPT ![cur] = @ \o sent]
          /\ events' = Log(cur, IF ok THEN "buildOk" ELSE "buildErr")
          /\ IF kind = "composite" /\ ack /\ Accepts("runner")
             THEN /\ hpc' = "r_init"
                  /\ hdata' = "true"
                  /\ hret' = "top"
             ELSE /\ hpc' = "idle"
                  /\ UNCHANGED <<hdata, hret>>
    /\ UNCHANGED <<kind, cfg, variant, peer, phase, stages, closed, channel, loopVars, cur, ntrig,
                   payload, pendingClose, hpcAtClose, startReq, acks>>

\* The handler of one of the StageVariants runs to its end: type assertion,
\* tool, replies; a closed stage emits nothing.
StageHandle(ok) ==
    /\ hpc = "stage"
    /\ LET d == payload[cur]
           out == StageReplies(variant, d, ok)
           sent == IF "stage" \in closed THEN <<>> ELSE out
       IN /\ emitted' = [emitted EXCEPT ![cur] = @ \o sent]
          /\ events' = IF TypeAsserts(variant, d) /\ CallsTool(variant)
                        THEN Log(cur, IF ok THEN "buildOk" ELSE "buildErr")
                        ELSE events
    /\ hpc' = "idle"
    /\ UNCHANGED <<kind, cfg, variant, peer, phase, stages, closed, channel, loopVars,
                   hdata, hret, cur, ntrig, payload, pendingClose, hpcAtClose, startReq,
                   acks>>

\* Launcher handler: `if channel == nil { channel = Run...(...) }`.
RInit ==
    /\ hpc = "r_init"
    /\ IF NeedsMailbox(channel)
       THEN /\ NumLoops < MaxLoops
            /\ LET l == NumLoops + 1
               IN /\ channel' = l
                  /\ mbox' = [mbox EXCEPT ![l] = "open"]
                  /\ lpc' = [lpc EXCEPT ![l] = "recv"]
                  /\ peer' = IF MailboxScope = "package" /\ peer.state # "absent"
                              THEN [peer EXCEPT !.mbox = "open"]
                              ELSE peer
       ELSE UNCHANGED <<channel, mbox, lpc, peer>>
    /\ hpc' = "r_select"
    /\ UNCHANGED <<kind, cfg, variant, phase, stages, closed, lval, ltrig, proc, hdata, hret, cur,
                   ntrig, payload, pendingClose, histVars, acks>>

\* select, case <-root.CloseNotify(): close(channel); return.
RSelectClose ==
    /\ hpc = "r_select"
    /\ "runner" \in closed
    /\ mbox' = [mbox EXCEPT ![channel] = "closed"]
    /\ peer' = IF MailboxScope = "package" /\ peer.state # "absent"
                THEN [peer EXCEPT !.mbox = "closed"]
                ELSE peer
    /\ hpc' = Ret(hret)
    /\ UNCHANGED <<kind, cfg, variant, phase, stages, closed, channel, lpc, lval, ltrig, proc,
                   hdata, hret, cur, ntrig, payload, pendingClose, histVars, acks>>

\* select, case <-time.After(0): ready whether or not close was requested.
RSelectTimer ==
    /\ hpc = "r_select"
    /\ hpc' = IF LauncherSends(kind, hdata) THEN "r_send" ELSE Ret(hret)
    /\ UNCHANGED <<kind, cfg, variant, peer, phase, stages, closed, channel, loopVars, hdata, hret, cur,
                   ntrig, payload, pendingClose, histVars, acks>>

\* `channel <- v` meets the run-loop's receive (the mailbox is unbuffered).
RSend ==
    /\ hpc = "r_send"
    /\ mbox[channel] = "open"
    /\ lpc[channel] = "recv"
    /\ LET v == LauncherSendValue(kind, hdata)
       IN /\ lval' = [lval EXCEPT ![channel] = v]
          /\ ltrig' = [ltrig EXCEPT ![channel] = cur]
          /\ lpc' = [lpc EXCEPT ![channel] =
                        IF kind = "command"
                        THEN (IF v = "true" THEN "start" ELSE "recv")
                        ELSE "kill"]
          /\ startReq' = IF v = "true" THEN startReq \cup {cur} ELSE startReq
          /\ events' = IF v = "true" THEN Log(cur, "startReq") ELSE Log(cur, "killSent")
    /\ hpc' = Ret(hret)
    /\ UNCHANGED <<kind, cfg, variant, peer, phase, stages, closed, channel, mbox, proc, hdata, hret,
                   cur, ntrig, payload, pendingClose, hpcAtClose, emitted, acks>>

\* Run-loop: the mailbox was closed, the loop ends.
LoopClosed(l) ==
    /\ lpc[l] = "recv"
    /\ mbox[l] = "closed"
    /\ lpc' = [lpc EXCEPT ![l] = "exited"]
    /\ UNCHANGED <<kind, cfg, variant, peer, phase, stages, closed, channel, mbox, lval, ltrig, proc,
                   hpc, hdata, hret, cur, ntrig, payload, pendingClose, histVars, acks>>

\* Run-loop of RunBin / RunGo: kill the current run, if any, before anything else.
LoopKill(l) ==
    /\ lpc[l] = "kill"
    /\ proc' = [proc EXCEPT ![l] = "none"]
    /\ lpc' = [lpc EXCEPT ![l] = IF lval[l] = "true" THEN "start" ELSE "recv"]
    /\ UNCHANGED <<kind, cfg, variant, peer, phase, stages, closed, channel, mbox, lval, ltrig,
                   hpc, hdata, hret, cur, ntrig, payload, pendingClose, histVars, acks>>

\* Run-loop: start the child process.
LoopStart(l) ==
    /\ lpc[l] = "start"
    /\ proc' = [proc EXCEPT ![l] = "alive"]
    /\ lpc' = [lpc EXCEPT ![l] = IF kind = "command" THEN "wait" ELSE "done"]
    /\ events' = Log(ltrig[l], "runStarted")
    /\ UNCHANGED <<kind, cfg, variant, peer, phase, stages, closed, channel, mbox, lval, ltrig,
                   hpc, hdata, hret, cur, ntrig, payload, pendingClose, hpcAtClose,
                   emitted, startReq, acks>>

\* Run-loop of RunCMD: the commands are run to completion.
LoopWait(l) ==
    /\ lpc[l] = "wait"
    /\ proc[l] \in {"dead", "crashed"}
    /\ proc' = [proc EXCEPT ![l] = "none"]
    /\ lpc' = [lpc EXCEPT ![l] = "done"]
    /\ UNCHANGED <<kind, cfg, variant, peer, phase, stages, closed, channel, mbox, lval, ltrig,
                   hpc, hdata, hret, cur, ntrig, payload, pendingClose, histVars, acks>>

\* Run-loop: the done callback, root.Reply(true); a closed stage emits nothing.
LoopDone(l) ==
    /\ lpc[l] = "done"
    /\ lpc' = [lpc EXCEPT ![l] = "recv"]
    /\ acks' = IF "runner" \in closed THEN acks ELSE acks + 1
    /\ UNCHANGED <<kind, cfg, variant, peer, phase, stages, closed, channel, mbox, lval, ltrig, proc,
                   hpc, hdata, hret, cur, ntrig, payload, pendingClose, histVars>>

\* The child process ends by itself; an abnormal end of a RunBin / RunGo child
\* runs the second callback, `go root.Close()`.
ProcExit(l, abnormal) ==
    /\ proc[l] = "alive"
    /\ proc' = [proc EXCEPT ![l] = IF abnormal THEN "crashed" ELSE "dead"]
    /\ pendingClose' = IF abnormal /\ SecondCallbackCloses(kind) THEN TRUE ELSE pendingClose
    /\ UNCHANGED <<kind, cfg, variant, peer, phase, stages, closed, channel, mbox, lpc, lval, ltrig,
                   hpc, hdata, hret, cur, ntrig, payload, histVars, acks>>

\* The goroutine started by `go root.Close()` runs: the runner's stage closes.
AsyncClose ==
    /\ pendingClose
    /\ pendingClose' = FALSE
    /\ closed' = closed \cup {"runner"}
    /\ hpcAtClose' = IF "runner" \in closed THEN hpcAtClose ELSE hpc
    /\ UNCHANGED <<kind, cfg, variant, peer, phase, stages, channel, loopVars, hpc, hdata, hret, cur,
                   ntrig, payload, events, emitted, startReq, acks>>

\* Close of the constructed reactor, from any caller; bindings made with
\* close = true close the bound stages with it.
Close ==
    /\ phase = "ready"
    /\ closed # stages
    /\ closed' = stages
    /\ hpcAtClose' = IF "runner" \in stages /\ "runner" \notin closed THEN hpc ELSE hpcAtClose
    /\ UNCHANGED <<kind, cfg, variant, peer, phase, stages, channel, loopVars, hpc, hdata, hret, cur,
                   ntrig, payload, pendingClose, events, emitted, startReq, acks>>

\* The second composite receives its first trigger: its runner creates its
\* own mailbox and run-loop and, after the build, its own child process.
PeerTrigger ==
    /\ peer.state = "Idle"
    /\ peer' = [state |-> "Running", mbox |-> "open", proc |-> "alive"]
    /\ IF MailboxScope = "package" /\ channel = 0
       THEN /\ NumLoops < MaxLoops
            /\ channel' = NumLoops + 1
            /\ mbox' = [mbox EXCEPT ![NumLoops + 1] = "open"]
            /\ lpc' = [lpc EXCEPT ![NumLoops + 1] = "recv"]
       ELSE UNCHANGED <<channel, mbox, lpc>>
    /\ UNCHANGED <<kind, cfg, variant, phase, stages, closed, lval, ltrig, proc,
                   hpc, hdata, hret, cur, ntrig, payload, pendingClose, histVars, acks>>

\* The second composite is closed: its runner closes its mailbox and its
\* run-loop ends with its child.
PeerClose ==
    /\ peer.state \in {"Idle", "Running"}
    /\ peer' = [state |-> "Closed",
                mbox |-> IF peer.mbox = "none" THEN "none" ELSE "closed",
                proc |-> "none"]
    /\ UNCHANGED <<kind, cfg, variant, phase, stages, closed, channel, loopVars,
                   hpc, hdata, hret, cur, ntrig, payload, pendingClose, histVars, acks>>

Next ==
    \/ Construct
    \/ \E d \in PayloadsOf(kind, variant) : Trigger(d)
    \/ CoordKill
    \/ CoordReply
    \/ \E ok \in BOOLEAN : Build(ok)
    \/ \E ok \in BOOLEAN : StageHandle(ok)
    \/ PeerTrigger
    \/ PeerClose
    \/ RInit
    \/ RSelectClose
    \/ RSelectTimer
    \/ RSend
    \/ \E l \in Loops : LoopClosed(l)
    \/ \E l \in Loops : LoopKill(l)
    \/ \E l \in Loops : LoopStart(l)
    \/ \E l \in Loops : LoopWait(l)
    \/ \E l \in Loops : LoopDone(l)
    \/ \E l \in Loops : \E a \in BOOLEAN : ProcExit(l, a)
    \/ AsyncClose
    \/ Close

Spec == Init /\ [][Next]_vars

\* Scheduling: a handler that can take its next step takes it, the run-loop
\* goroutine runs, and a started `go root.Close()` runs.  Nothing obliges the
\* environment to send a trigger or to call Close, a child process to end, or
\* the second composite to move.
Fairness ==
    /\ WF_vars(CoordKill)
    /\ WF_vars(CoordReply)
    /\ WF_vars(\E ok \in BOOLEAN : Build(ok))
    /\ WF_vars(\E ok \in BOOLEAN : StageHandle(ok))
    /\ WF_vars(RInit)
    /\ WF_vars(RSelectClose \/ RSelectTimer)
    /\ WF_vars(RSend)
    /\ WF_vars(\E l \in Loops : LoopClosed(l))
    /\ WF_vars(\E l \in Loops : LoopKill(l))
    /\ WF_vars(\E l \in Loops : LoopStart(l))
    /\ WF_vars(\E l \in Loops : LoopWait(l))
    /\ WF_vars(\E l \in Loops : LoopDone(l))
    /\ WF_vars(AsyncClose)

FairSpec == Spec /\ Fairness

----------------------------------------------------------------------------
(* Helpers for the properties *)

Has(t, e) == \E i \in 1..Len(events[t]) : events[t][i] = e

Pos(t, e) == CHOOSE i \in 1..Len(events[t]) : events[t][i] = e

IsPrefix(s, q) == Len(s) <= Len(q) /\ SubSeq(q, 1, Len(s)) = s

\* The events of trigger t without the hand-off of the start request.
Shown(t) == SelectSeq(events[t], LAMBDA e : e # "startReq")

FullCycle == <<"killSent", "buildStarted", "buildOk", "runStarted">>

\* No thread of the program can take a step without a new trigger or Close.
Quiescent ==
    /\ hpc = "idle"
    /\ ~pendingClose
    /\ \A l \in Loops : lpc[l] \in {"none", "recv", "exited"}
    /\ \A l \in Loops : ~(lpc[l] = "recv" /\ mbox[l] = "closed")

\* The state of the launcher in the design's state machine.
LauncherState ==
    IF "runner" \in closed THEN "Closed" ELSE IF channel = 0 THEN "Idle" ELSE "Running"

\* The handler has run to its end for trigger t.
Handled(t) == t < cur \/ (t = cur /\ hpc = "idle")

\* The system is a build / install stage that replies Ack(true) or the error.
AckOrErrStage ==
    \/ kind = "builder"
    \/ (kind = "stage" /\
            variant \in {"GoInstaller", "GoInstallerWith", "GoArgsBuilder", "GoArgsBuilderWith"})

----------------------------------------------------------------------------
(* C1: a supervisor never owns more than one live child process, under any *)
(* interleaving of triggers, kill requests, process exits and close.       *)
C1_AtMostOneLiveChild == Cardinality(LiveProcs) <= 1

\* A second start request was honoured while the first trigger had started a
\* child, and a child is alive.
C1_Witness ==
    /\ kind \in {"binary", "composite"}
    /\ Has(1, "runStarted")
    /\ \E t \in Triggers : t > 1 /\ Has(t, "runStarted")
    /\ LiveProcs # {}

(* C2: in a composite, whenever an earlier trigger started a process, the  *)
(* runner has observed the false of a later trigger before the builder     *)
(* executes that later trigger's build.                                    *)
C2_KillObservedBeforeBuild ==
    kind = "composite" =>
        \A t1, t2 \in Triggers :
            (t1 < t2 /\ Has(t1, "runStarted") /\ Has(t2, "buildStarted"))
                => (Has(t2, "killSent") /\ Pos(t2, "killSent") < Pos(t2, "buildStarted"))

(* C3: in a composite a failed build for trigger T emits the error, the    *)
(* runner receives no start request for T, no process is started for T,    *)
(* and the binary killed for T stays down.                                 *)
C3_FailedBuildNoRun ==
    kind = "composite" =>
        \A t \in Triggers :
            Has(t, "buildErr") =>
                /\ t \notin startReq
                /\ ~Has(t, "startReq")
                /\ ~Has(t, "runStarted")
                /\ ("builder" \notin closed => emitted[t] = <<"err">>)
                /\ (t = cur /\ Has(t, "killSent") /\ lpc[channel] = "recv")
                        => LiveProcs = {}

\* The second trigger killed the first trigger's run and its build failed.
C3_Witness ==
    /\ kind = "composite"
    /\ Has(1, "runStarted")
    /\ Has(2, "killSent")
    /\ Has(2, "buildErr")
    /\ hpc = "idle"
    /\ cur = 2

(* C4: in a composite the build for trigger T has completed, successfully, *)
(* before the runner receives T's start request and before T's process is  *)
(* started; no run for T begins while T's build executes.                  *)
C4_BuildCompletesBeforeRun ==
    kind = "composite" =>
        \A t \in Triggers :
            (t \in startReq \/ Has(t, "startReq") \/ Has(t, "runStarted")) =>
                /\ Has(t, "buildOk")
                /\ Has(t, "startReq")
                /\ Pos(t, "buildOk") < Pos(t, "startReq")
                /\ ~(hpc = "build" /\ cur = t)
                /\ (Has(t, "runStarted") => Pos(t, "startReq") < Pos(t, "runStarted"))

\* A process was started for the second trigger.
C4_Witness ==
    /\ kind = "composite"
    /\ Has(2, "runStarted")
    /\ \E l \in Loops : proc[l] = "alive" /\ ltrig[l] = 2

(* C5: BinaryBuildLauncher and GoBuilderWith panic at construction exactly *)
(* when Name or Path is empty, before any stage exists and before any      *)
(* trigger; otherwise construction succeeds and nothing is built or run    *)
(* until the first trigger.                                                *)
C5_EagerValidation ==
    (kind \in {"composite", "builder"} /\ phase # "new") =>
        /\ (phase = "panicked") <=> (cfg.Name = "" \/ cfg.Path = "")
        /\ phase = "panicked" => (stages = {} /\ ntrig = 0)
        /\ (phase = "ready" /\ ntrig = 0) =>
                /\ hpc = "idle"
                /\ channel = 0
                /\ NumLoops = 0
                /\ LiveProcs = {}
                /\ \A t \in Triggers : events[t] = <<>> /\ emitted[t] = <<>>

\* A composite given a name and an empty path has panicked.
C5_Witness ==
    /\ kind = "composite"
    /\ cfg.Name # ""
    /\ cfg.Path = ""
    /\ phase = "panicked"

C7_CancellationAlwaysWins ==
    [][(hpc = "r_select" /\ "runner" \in closed) => (hpc' # "r_send")]_vars

(* C8: whenever a launcher with a mailbox was closed while no trigger was   *)
(* being handled (so none is handled after the close) and no thread of the *)
(* program can take a further step, the mailbox is closed and the run-loop *)
(* has exited.                                                             *)
C8_CloseEndsRunLoop ==
    (channel # 0 /\ "runner" \in closed /\ hpcAtClose = "idle" /\ Quiescent) =>
        (mbox[channel] = "closed" /\ lpc[channel] = "exited")

(* C9: a hand-off that was pending (the handler was at its send, the value *)
(* not yet taken) when the launcher's stage closed is dropped: the         *)
(* run-loop receives no value from it and starts no process for it.        *)
C9_PendingHandoffDropped ==
    [][(hpc = "r_send" /\ hpcAtClose = "r_send")
            => (lval' = lval /\ ltrig' = ltrig /\ startReq' = startReq)]_vars

C11_AbnormalExitCloses ==
    /\ ((kind # "command" /\ \E l \in Loops : proc[l] = "crashed") ~> ("runner" \in closed))
    /\ [](kind = "command" => ~pendingClose)

\* The child of the BinaryLauncher of a composite ended abnormally and the
\* callback alone (no Close of the composite) has closed the launcher's stage.
C11_Witness ==
    /\ kind = "composite"
    /\ channel # 0
    /\ proc[channel] = "crashed"
    /\ closed = {"runner"}
    /\ ~pendingClose

C13_HandoffNeverWaits ==
    hpc = "r_send" => (mbox[channel] = "open" /\ lpc[channel] = "recv")

C15_StateMachine ==
    /\ [](/\ NumLoops <= 1
          /\ (channel = 0) <=> (NumLoops = 0)
          /\ hpc \in {"r_select", "r_send"} => channel # 0
          /\ startReq # {} => channel # 0)
    /\ [][/\ channel # 0 => channel' = channel
          /\ closed \subseteq closed'
          /\ \A l \in Loops :
                /\ mbox[l] = "closed" => mbox'[l] = "closed"
                /\ mbox[l] = "open" => mbox'[l] \in {"open", "closed"}
                /\ lpc[l] = "exited" => lpc'[l] = "exited"
          /\ LauncherState = "Idle" => LauncherState' \in {"Idle", "Running", "Closed"}
          /\ LauncherState = "Running" => LauncherState' \in {"Running", "Closed"}
          /\ LauncherState = "Closed" => LauncherState' = "Closed"]_vars

\* A launcher served two start requests through its one mailbox, then was
\* closed while handling the third trigger: the mailbox is closed and the
\* run-loop has ended.
C15_Witness ==
    /\ kind \in LauncherKinds
    /\ {1, 2} \subseteq startReq
    /\ cur = 3
    /\ NumLoops = 1
    /\ LauncherState = "Closed"
    /\ mbox[channel] = "closed"
    /\ lpc[channel] = "exited"

(* C16: in a composite a trigger passes coordinator, builder, runner in    *)
(* that order: the builder sees it only once the coordinator's handler has *)
(* made its send to the runner and is over, the runner gets the start      *)
(* request only after the build handler ended with success, and the        *)
(* run-loop receives the start requests in the order of their triggers.    *)
C16_ChainOrder ==
    /\ [](kind = "composite" =>
            \A t \in Triggers :
                /\ (Has(t, "killSent") /\ Has(t, "buildStarted"))
                        => Pos(t, "killSent") < Pos(t, "buildStarted")
                /\ (cur = t /\ (\/ hpc \in {"coord", "coord_reply"}
                                \/ (hret = "coord" /\ hpc \in {"r_init", "r_select", "r_send"})))
                        => ~Has(t, "buildStarted")
                /\ Has(t, "startReq")
                        => (Has(t, "buildOk") /\ Pos(t, "buildOk") < Pos(t, "startReq"))
                /\ (cur = t /\ hpc = "build") => ~Has(t, "startReq"))
    /\ [][kind = "composite" =>
            \A t \in startReq' \ startReq : \A u \in startReq : u < t]_vars

\* The run-loop received the start requests of the first and then of the
\* second trigger, and the builder is now handling the third.
C16_Witness ==
    /\ kind = "composite"
    /\ startReq = {1, 2}
    /\ Has(2, "runStarted")
    /\ cur = 3
    /\ hpc = "build"
    /\ Has(3, "killSent")

(* C17: in GoBuilderWith, GoInstaller, GoInstallerWith, GoArgsBuilder and  *)
(* GoArgsBuilderWith a trigger whose tool failed has emitted the error,    *)
(* once, and no Ack(true); handling it does not close the stage, which     *)
(* then accepts the next trigger; a trigger whose tool succeeded, after a  *)
(* failure or not, has emitted Ack(true) alone.                            *)
C17_ToolFailureEmitsErrorOnce ==
    /\ [](AckOrErrStage /\ closed = {} =>
            /\ \A t \in Triggers :
                    /\ (Handled(t) /\ Has(t, "buildErr")) => emitted[t] = <<"err">>
                    /\ (Handled(t) /\ Has(t, "buildOk")) => emitted[t] = <<"ack">>
            /\ ((\E t \in Triggers : Has(t, "buildErr")) /\ hpc = "idle"
                    /\ ntrig < MaxTriggers)
                    => ENABLED (\E d \in PayloadsOf(kind, variant) : Trigger(d)))
    /\ [][(AckOrErrStage /\ hpc \in {"build", "stage"} /\ hpc' = "idle")
                => closed' = closed]_vars

\* GoInstaller: the tool failed for the first trigger, which emitted the
\* error alone, and succeeded for the second, which emitted Ack(true).
C17_Witness ==
    /\ kind = "stage"
    /\ variant = "GoInstaller"
    /\ emitted[1] = <<"err">>
    /\ Has(1, "buildErr")
    /\ emitted[2] = <<"ack">>
    /\ Has(2, "buildOk")
    /\ closed = {}

C19_MailboxClosedOnce ==
    /\ []((hpc \in {"r_init", "r_select", "r_send"} /\ channel # 0)
            => mbox[channel] = "open")
    /\ [][\A l \in Loops :
            mbox[l] = "closed"
                => (mbox'[l] = "closed" /\ lval'[l] = lval[l] /\ ltrig'[l] = ltrig[l])]_vars

\* The runner of a composite closed its mailbox on an earlier trigger, and
\* the third trigger, sent afterwards, has got past the runner to the builder.
C19_Witness ==
    /\ kind = "composite"
    /\ channel # 0
    /\ mbox[channel] = "closed"
    /\ cur = 3
    /\ hpc = "build"
    /\ \E t \in {1, 2} : Has(t, "runStarted")

(* C20: every build / install stage (GoInstaller, GoInstallerWith,          *)
(* GoBuilder, GoBuilderWith, GoArgsBuilder, GoArgsBuilderWith) that stays  *)
(* open has emitted, for each signal it accepted and handled, exactly one  *)
(* signal: Ack(true) when the tool succeeded, the error when it failed.    *)
C20_ExactlyOneOutput ==
    ((AckOrErrStage \/ (kind = "stage" /\ variant = "GoBuilder")) /\ closed = {}) =>
        \A t \in Triggers :
            (Handled(t) /\ (Expects(variant) = "any" \/ payload[t] = Expects(variant))) =>
                /\ Len(emitted[t]) = 1
                /\ Has(t, "buildOk") => emitted[t] = <<"ack">>
                /\ Has(t, "buildErr") => emitted[t] = <<"err">>

====
